---- MODULE Spec2Model ----
(***************************************************************************)
(* Model of the two PHYS20161 scripts:                                     *)
(*   u95060ss_first_assignment_bouncy_ball.py  (bounce calculator)         *)
(*   nuclear_decay.py                          (decay-constant fit)        *)
(*                                                                         *)
(* Bounce script.  Python floats are IEEE-754 binary floating point.  The  *)
(* model keeps the format and scales it down: Precision significand bits,  *)
(* gradual underflow (subnormals), round-to-nearest-even, +-Infinity and   *)
(* NaN.  A float is held as an integer number of units, one unit being the *)
(* smallest positive subnormal; 1.0 is 2^OneExp units.                     *)
(***************************************************************************)
EXTENDS Integers, Sequences, FiniteSets, TLC

\* ------------------------------------------------------------------------
\* Scaled-down IEEE-754 binary format
\* ------------------------------------------------------------------------

\* significand bits (53 in binary64)
Precision == 3
\* 1.0 is 2^OneExp units of the smallest subnormal (2^1074 in binary64)
OneExp == 4
\* largest exponent of the unit in the last place (971 in binary64)
MaxExp == 7

RECURSIVE Pow2(_)
Pow2(n) == IF n = 0 THEN 1 ELSE 2 * Pow2(n - 1)

One == Pow2(OneExp)
MaxFinite == (Pow2(Precision) - 1) * Pow2(MaxExp)
\* the special values, as integers outside the finite range
Inf == Pow2(Precision) * Pow2(MaxExp)
NaN == Inf + 1

IsRepresentable(k) ==
    \/ k < Pow2(Precision)
    \/ \E j \in 1..MaxExp :
          /\ k % Pow2(j) = 0
          /\ (k \div Pow2(j)) \in Pow2(Precision - 1)..(Pow2(Precision) - 1)

\* the non-negative finite floats
Floats == {k \in 0..MaxFinite : IsRepresentable(k)}

SetMax(S) == CHOOSE x \in S : \A y \in S : y <= x
SetMin(S) == CHOOSE x \in S : \A y \in S : x <= y
Abs(x) == IF x < 0 THEN 0 - x ELSE x

\* n/d units (n >= 0, d > 0) rounded to the nearest float, ties to the even
\* significand; values at or beyond the midpoint above MaxFinite give Inf.
RoundNE(n, d) ==
    IF n >= Inf * d THEN Inf
    ELSE LET lo == SetMax({r \in Floats : r * d <= n})
             hi == SetMin({r \in Floats \cup {Inf} : r * d >= n})
         IN  IF lo = hi THEN lo
             ELSE IF 2 * n < (lo + hi) * d THEN lo
             ELSE IF 2 * n > (lo + hi) * d THEN hi
             ELSE IF (lo \div (hi - lo)) % 2 = 0 THEN lo ELSE hi

IsNaN(a) == a = NaN
IsInf(a) == a = Inf \/ a = 0 - Inf
Sign(a) == IF a < 0 THEN 0 - 1 ELSE 1

\* float comparisons: every comparison with NaN is False
FGt(a, b) == ~IsNaN(a) /\ ~IsNaN(b) /\ a > b
FLt(a, b) == ~IsNaN(a) /\ ~IsNaN(b) /\ a < b
FGe(a, b) == ~IsNaN(a) /\ ~IsNaN(b) /\ a >= b
FLe(a, b) == ~IsNaN(a) /\ ~IsNaN(b) /\ a <= b

\* a Python int used in float arithmetic
FromInt(k) == Sign(k) * RoundNE(Abs(k) * One, 1)
\* a decimal literal n/d
FromRatio(n, d) == RoundNE(n * One, d)

FMul(a, b) ==
    IF IsNaN(a) \/ IsNaN(b) THEN NaN
    ELSE IF IsInf(a) \/ IsInf(b)
         THEN IF a = 0 \/ b = 0 THEN NaN ELSE Sign(a) * Sign(b) * Inf
    ELSE Sign(a) * Sign(b) * RoundNE(Abs(a) * Abs(b), One)

FDiv(a, b) ==
    IF IsNaN(a) \/ IsNaN(b) THEN NaN
    ELSE IF IsInf(a) THEN (IF IsInf(b) THEN NaN ELSE Sign(a) * Sign(b) * Inf)
    ELSE IF IsInf(b) THEN 0
    ELSE IF b = 0 THEN (IF a = 0 THEN NaN ELSE Sign(a) * Inf)
    ELSE Sign(a) * Sign(b) * RoundNE(Abs(a) * One, Abs(b))

FAdd(a, b) ==
    IF IsNaN(a) \/ IsNaN(b) THEN NaN
    ELSE IF IsInf(a) THEN (IF IsInf(b) /\ a # b THEN NaN ELSE a)
    ELSE IF IsInf(b) THEN b
    ELSE Sign(a + b) * RoundNE(Abs(a + b), 1)

\* correctly rounded square root: sqrt(a/One) * One = sqrt(a * One) units
FSqrt(a) ==
    IF IsNaN(a) \/ a < 0 THEN NaN
    ELSE IF a = Inf THEN Inf
    ELSE LET x  == a * One
             lo == SetMax({r \in Floats : r * r <= x})
             hi == SetMin({r \in Floats \cup {Inf} : r * r >= x})
         IN  IF lo = hi THEN lo
             ELSE IF 4 * x < (lo + hi) * (lo + hi) THEN lo ELSE hi

\* ------------------------------------------------------------------------
\* Decay script: numbers
\*
\* The decay script multiplies by 3600 and 10^12 and divides sums of squares,
\* so its floats are held exactly, as n/d * 10^e * 2^t with n and d coprime
\* to each other and to 10.  d = 0 marks the special values: n = 0 is NaN,
\* n = 1 is +Infinity, n = -1 is -Infinity.  Rounding is modelled where the
\* script's results depend on it, in rubidium_activity: there every operation
\* rounds its exact result to SignificantDigits digits, to nearest, ties to
\* the even significand (53 bits in binary64), with an unbounded exponent.
\* ------------------------------------------------------------------------

RECURSIVE GCD(_, _)
GCD(a, b) == IF b = 0 THEN a ELSE GCD(b, a % b)

RECURSIVE Pow10(_)
Pow10(k) == IF k = 0 THEN 1 ELSE 10 * Pow10(k - 1)

RECURSIVE Norm(_, _, _, _)
Norm(n, d, e, t) ==
    IF n = 0 THEN [n |-> 0, d |-> 1, e |-> 0, t |-> 0]
    ELSE IF GCD(Abs(n), d) > 1
         THEN Norm(n \div GCD(Abs(n), d), d \div GCD(Abs(n), d), e, t)
    ELSE IF n % 2 = 0 THEN Norm(n \div 2, d, e, t + 1)
    ELSE IF n % 5 = 0 THEN Norm(n \div 5, d, e + 1, t - 1)
    ELSE IF d % 2 = 0 THEN Norm(n, d \div 2, e, t - 1)
    ELSE IF d % 5 = 0 THEN Norm(n, d \div 5, e - 1, t + 1)
    ELSE [n |-> n, d |-> d, e |-> e, t |-> t]

\* the float n/d * 10^e
Canon(n, d, e) == Norm(n, d, e, 0)

NumNaN == [n |-> 0, d |-> 0, e |-> 0, t |-> 0]
NumInf(sign) == [n |-> sign, d |-> 0, e |-> 0, t |-> 0]
NumIsNaN(a) == a.d = 0 /\ a.n = 0
NumIsInf(a) == a.d = 0 /\ a.n # 0
\* the float k * 10^e for integers k, e
Num(k, e) == Canon(k, 1, e)

NNeg(a) == [a EXCEPT !.n = 0 - a.n]
NAbs(a) == [a EXCEPT !.n = Abs(a.n)]

NMul(a, b) ==
    IF NumIsNaN(a) \/ NumIsNaN(b) THEN NumNaN
    ELSE IF NumIsInf(a) \/ NumIsInf(b)
         THEN IF a.n = 0 \/ b.n = 0 THEN NumNaN
              ELSE NumInf(Sign(a.n) * Sign(b.n))
    ELSE Norm(a.n * b.n, a.d * b.d, a.e + b.e, a.t + b.t)

NDiv(a, b) ==
    IF NumIsNaN(a) \/ NumIsNaN(b) THEN NumNaN
    ELSE IF NumIsInf(a)
         THEN IF NumIsInf(b) THEN NumNaN ELSE NumInf(Sign(a.n) * Sign(b.n))
    ELSE IF NumIsInf(b) THEN Num(0, 0)
    ELSE IF b.n = 0 THEN (IF a.n = 0 THEN NumNaN ELSE NumInf(Sign(a.n)))
    ELSE Norm(a.n * b.d * Sign(b.n), a.d * Abs(b.n), a.e - b.e, a.t - b.t)

NAdd(a, b) ==
    IF NumIsNaN(a) \/ NumIsNaN(b) THEN NumNaN
    ELSE IF NumIsInf(a) THEN (IF NumIsInf(b) /\ a.n # b.n THEN NumNaN ELSE a)
    ELSE IF NumIsInf(b) THEN b
    ELSE IF a.n = 0 THEN b
    ELSE IF b.n = 0 THEN a
    ELSE LET lowe == IF a.e < b.e THEN a.e ELSE b.e
             lowt == IF a.t < b.t THEN a.t ELSE b.t
             common == GCD(a.d, b.d)
         IN  Norm(a.n * Pow10(a.e - lowe) * Pow2(a.t - lowt)
                      * (b.d \div common)
                    + b.n * Pow10(b.e - lowe) * Pow2(b.t - lowt)
                      * (a.d \div common),
                  a.d * (b.d \div common), lowe, lowt)

NSub(a, b) == NAdd(a, NNeg(b))

NumSign(a) == IF a.n > 0 THEN 1 ELSE IF a.n < 0 THEN 0 - 1 ELSE 0

\* x * b^k (x, b >= 1, k >= 0), held at 2^31 - 1 when it would pass it
RECURSIVE SatPow(_, _, _)
SatPow(x, b, k) ==
    IF k = 0 THEN x
    ELSE IF x > 2147483647 \div b THEN 2147483647
    ELSE SatPow(x * b, b, k - 1)

\* x * 10^e * 2^t against y * 10^f * 2^u (x, y >= 1): -1, 0 or 1
ScaledCmp(x, e, t, y, f, u) ==
    LET Up(k) == IF k > 0 THEN k ELSE 0
        left == SatPow(SatPow(x, 10, Up(e - f)), 2, Up(t - u))
        right == SatPow(SatPow(y, 10, Up(f - e)), 2, Up(u - t))
    IN  IF left = 2147483647 /\ right = 2147483647
        THEN CHOOSE order \in {} : TRUE
        ELSE IF left > right THEN 1
        ELSE IF left = right THEN 0
        ELSE 0 - 1

\* order of two numbers that are not NaN: -1, 0 or 1
NCmp(a, b) ==
    IF a = b THEN 0
    ELSE IF NumSign(a) # NumSign(b)
         THEN (IF NumSign(a) < NumSign(b) THEN 0 - 1 ELSE 1)
    ELSE IF NumIsInf(a) THEN NumSign(a)
    ELSE IF NumIsInf(b) THEN 0 - NumSign(a)
    ELSE NumSign(a) * ScaledCmp(SatPow(Abs(a.n), b.d, 1), a.e, a.t,
                                SatPow(Abs(b.n), a.d, 1), b.e, b.t)

\* float comparisons: every comparison with NaN is False
NLt(a, b) == ~NumIsNaN(a) /\ ~NumIsNaN(b) /\ NCmp(a, b) < 0
NLe(a, b) == ~NumIsNaN(a) /\ ~NumIsNaN(b) /\ NCmp(a, b) <= 0

\* square root of a float that is an exact square
NSqrt(a) ==
    IF NumIsNaN(a) \/ a.n < 0 THEN NumNaN
    ELSE IF NumIsInf(a) THEN a
    ELSE LET root(k) == CHOOSE r \in 0..k : r * r = k
         IN  IF a.e % 2 = 0 /\ a.t % 2 = 0
             THEN Norm(root(a.n), root(a.d), a.e \div 2, a.t \div 2)
             ELSE CHOOSE r \in {} : TRUE

\* significant digits kept by a rounded operation
SignificantDigits == 3

\* num/den * 10^e (num, den >= 1) rounded to SignificantDigits digits
RECURSIVE RoundDigits(_, _, _)
RoundDigits(num, den, e) ==
    IF num \div den >= Pow10(SignificantDigits)
    THEN RoundDigits(num, den * 10, e + 1)
    ELSE IF num \div den < Pow10(SignificantDigits - 1)
    THEN RoundDigits(num * 10, den, e - 1)
    ELSE LET floor == num \div den
             rest == num % den
             kept == IF 2 * rest < den THEN floor
                     ELSE IF 2 * rest > den THEN floor + 1
                     ELSE IF floor % 2 = 0 THEN floor ELSE floor + 1
         IN  Num(kept, e)

\* the float nearest to the exact value a
Round(a) ==
    IF a.d = 0 \/ a.n = 0 THEN a
    ELSE LET Up(k) == IF k > 0 THEN k ELSE 0
             rounded == RoundDigits(Abs(a.n) * Pow2(Up(a.t)),
                                    a.d * Pow2(Up(0 - a.t)), a.e)
         IN  IF a.n < 0 THEN NNeg(rounded) ELSE rounded

\* float *, / and -: the exact result, rounded
RMul(a, b) == Round(NMul(a, b))
RDiv(a, b) == Round(NDiv(a, b))
RSub(a, b) == Round(NSub(a, b))

\* ------------------------------------------------------------------------
\* Decay script: constants and pure functions
\* ------------------------------------------------------------------------

\* Avogadro*10**-6 = 6.02214076e17, as the nearest float
INITIAL_STRONTIUM_NUCLEI_COUNT == Round(Num(602214076, 9))
INITIAL_RUBIDIUM_DECAY_CONSTANT == Num(5, -4)
INITIAL_STRONTIUM_DECAY_CONSTANT == Num(5, -3)

\* 100 * e^(-x) to the nearest integer for x = 0, 0.5, 1, ..., 5; 0 beyond
ExpHundredths == <<100, 61, 37, 22, 14, 8, 5, 3, 2, 1, 1>>

\* math.e**(-x) for x >= 0, read from the table at floor(2x)
ExpNeg(x) ==
    IF NumIsNaN(x) THEN NumNaN
    ELSE IF NumIsInf(x) THEN Num(0, 0)
    ELSE LET Up(k) == IF k > 0 THEN k ELSE 0
             key == (x.n * Pow10(Up(x.e)) * Pow2(Up(x.t + 1)))
                        \div (x.d * Pow10(Up(0 - x.e)) * Pow2(Up(0 - x.t - 1)))
         IN  IF key + 1 > Len(ExpHundredths) THEN Num(0, 0)
             ELSE Num(ExpHundredths[key + 1], -2)

\* rubidium_activity returning strontium_decay_constant*rubidium_nuclei_count
rubidium_activity_strontium_factor(time, strontium_decay_constant, rubidium_decay_constant) ==
    LET rubidium_nuclei_count ==
            RMul(RMul(INITIAL_STRONTIUM_NUCLEI_COUNT,
                      RDiv(strontium_decay_constant,
                           RSub(rubidium_decay_constant,
                                strontium_decay_constant))),
                 RSub(ExpNeg(RMul(strontium_decay_constant, time)),
                      ExpNeg(RMul(rubidium_decay_constant, time))))
    IN  RMul(strontium_decay_constant, rubidium_nuclei_count)

rubidium_activity(time, strontium_decay_constant, rubidium_decay_constant) ==
    LET rubidium_nuclei_count ==
            RMul(RMul(INITIAL_STRONTIUM_NUCLEI_COUNT,
                      RDiv(strontium_decay_constant,
                           RSub(rubidium_decay_constant,
                                strontium_decay_constant))),
                 RSub(ExpNeg(RMul(strontium_decay_constant, time)),
                      ExpNeg(RMul(rubidium_decay_constant, time))))
    IN  RMul(rubidium_decay_constant, rubidium_nuclei_count)

\* rubidium_activity applied to an array of times
rubidium_activity_array(times, strontium_decay_constant, rubidium_decay_constant) ==
    [i \in 1..Len(times) |->
        rubidium_activity(times[i], strontium_decay_constant,
                          rubidium_decay_constant)]

\* the test always passing
data_is_not_null_always(datapoints) == TRUE
data_is_not_null(datapoints) == ~NumIsNaN(datapoints)

\* the condition of the loop body of remove_null_values
RowIsKept(row) ==
    data_is_not_null(row[1]) /\ data_is_not_null(row[2])
        /\ data_is_not_null(row[3])

\* the row after the three in-place unit conversions
ConvertedRow(row) ==
    <<NMul(row[1], Num(3600, 0)), NMul(row[2], Num(1, 12)),
      NMul(row[3], Num(1, 12))>>

\* column j of a two-dimensional array, data[:, j-1]
Column(data, j) == [i \in 1..Len(data) |-> data[i][j]]

\* the outlier test written with <= instead of <
OutlierTestInclusive(trial, activity, uncertainty) ==
    NLe(NAbs(NSub(trial, activity)), NMul(Num(3, 0), uncertainty))
OutlierTest(trial, activity, uncertainty) ==
    NLt(NAbs(NSub(trial, activity)), NMul(Num(3, 0), uncertainty))

remove_outliers(trial_act, time, activity, activity_uncertainty) ==
    LET filtered_indexes ==
            SelectSeq([i \in 1..Len(activity) |-> i],
                      LAMBDA i : OutlierTest(trial_act[i], activity[i],
                                             activity_uncertainty[i]))
        Take(column) ==
            [j \in 1..Len(filtered_indexes) |-> column[filtered_indexes[j]]]
        outlier_filtered_time == Take(time)
        outlier_filtered_activity == Take(activity)
        outlier_filtered_activity_uncertainty == Take(activity_uncertainty)
    IN  [j \in 1..Len(filtered_indexes) |->
            <<outlier_filtered_time[j], outlier_filtered_activity[j],
              outlier_filtered_activity_uncertainty[j]>>]

\* np.sum: the elements added one after the other, starting from 0.0
RECURSIVE NumSum(_)
NumSum(list) ==
    IF Len(list) = 0 THEN Num(0, 0)
    ELSE NAdd(NumSum(SubSeq(list, 1, Len(list) - 1)), list[Len(list)])

\* the term with the error not squared
ChiTermErrorNotSquared(dependent, predicted, error) ==
    NDiv(NMul(NSub(dependent, predicted), NSub(dependent, predicted)), error)
\* one term of the chi-squared sum
ChiTerm(dependent, predicted, error) ==
    NDiv(NMul(NSub(dependent, predicted), NSub(dependent, predicted)),
         NMul(error, error))

chi_squared_value(independent_variable, dependent_variable, error, predicted_dependent_variable, dataset) ==
    LET chi_squared ==
            NumSum([i \in 1..Len(dependent_variable) |->
                      ChiTerm(dependent_variable[i],
                              predicted_dependent_variable[i], error[i])])
        row_numbers == Len(independent_variable)
        column_numbers == Len(dataset[1]) - 1
        degrees_of_freedom == row_numbers - column_numbers
    IN  NDiv(chi_squared, Num(degrees_of_freedom, 0))

\* np.log(2) to three decimals
Log2 == Num(693, -3)

\* the two lines half_life prints: half-life and uncertainty, in minutes.
\* final_fit is <<strontium, rubidium>>: Python's final_fit[0], final_fit[1].
half_life(fitted, covariance) ==
    LET rubidium_half_life == NDiv(Log2, fitted[2])
        strontium_half_life == NDiv(Log2, fitted[1])
        rubidium_half_life_uncertainty ==
            NMul(NDiv(rubidium_half_life, Num(60, 0)),
                 NDiv(NSqrt(covariance[2][2]), fitted[2]))
        strontium_half_life_uncertainty ==
            NMul(NDiv(strontium_half_life, Num(60, 0)),
                 NDiv(NSqrt(covariance[1][1]), fitted[1]))
    IN  << <<"Rubidium-79 half-life",
             NDiv(rubidium_half_life, Num(60, 0)),
             rubidium_half_life_uncertainty>>,
           <<"Strontium-79 half-life",
             NDiv(strontium_half_life, Num(60, 0)),
             strontium_half_life_uncertainty>> >>

\* np.max of a non-empty array
RECURSIVE NumMax(_)
NumMax(list) ==
    IF Len(list) = 1 THEN list[1]
    ELSE LET rest == NumMax(SubSeq(list, 1, Len(list) - 1))
         IN  IF NLt(rest, list[Len(list)]) THEN list[Len(list)] ELSE rest

\* what plot_rubidium_activity draws: the data points with error bars and the
\* fitted curve, here at the two ends of np.linspace(0, np.max(time), 100000)
plot_rubidium_activity(time, activity, activity_uncertainty, strontium_decay_constant, rubidium_decay_constant) ==
    [points |-> [i \in 1..Len(time) |->
                    <<time[i], activity[i], activity_uncertainty[i]>>],
     fitted_activity |->
        rubidium_activity_array(<<Num(0, 0), NumMax(time)>>,
                                strontium_decay_constant,
                                rubidium_decay_constant)]

\* ------------------------------------------------------------------------
\* Bounce script: constants and state
\* ------------------------------------------------------------------------

GRAVITATIONAL_ACCELERATION_CONSTANT == FromRatio(9807, 1000)

\* a name that has not been assigned yet
Unset == Inf + 2
\* a name that holds the typed string (float() raised ValueError)
Text == Inf + 3

\* what can be typed at a prompt: a string float() rejects, or one it parses
\* (a finite number of either sign, "inf", "-inf", "nan")
NumericEntries ==
    Floats \cup {0 - k : k \in Floats} \cup {Inf, 0 - Inf, NaN}
TypedEntries == NumericEntries \cup {Text}

\* np.append never shrinks the list; a list of pairwise different finite
\* floats has at most Cardinality(Floats) elements, so only a run that
\* repeats a height can reach this length (it stands for memory running out)
MaxListLen == Cardinality(Floats) + 1

VARIABLES
    pc,                       \* position in main of the bounce script
    initial_height,
    minimum_height,
    energy_loss_coefficient,
    new_height,               \* local of calculate_height_values
    height_list,
    reported_bounces,         \* the count printed by calculate_height_values
    total_time,               \* result of calculate_time_values
    dpc,                      \* position in main of the decay script
    nuclear_data_1,           \* data rows of Nuclear_data_1.csv
    nuclear_data_2,           \* data rows of Nuclear_data_2.csv
    file_ab,
    row_index,                \* position of "for row in file_ab"
    null_filtered_data,
    fit,                      \* result of the first curve_fit, <<>> before
    trial_activity,
    final_data,               \* <<rows>> once remove_outliers has returned
    final_fit,
    final_covariance,
    plot_file,                \* <<figure>> once the plot is saved
    ideal_activity,
    reduced_chi_squared,
    console,                  \* lines printed by the decay script
    save_data,                \* <<answer>> once the save prompt is answered
    final_data_csv            \* <<rows>> once final_data.csv is written

bounceVars == <<pc, initial_height, minimum_height, energy_loss_coefficient,
                new_height, height_list, reported_bounces, total_time>>

decayVars == <<dpc, nuclear_data_1, nuclear_data_2, file_ab, row_index,
               null_filtered_data, fit, trial_activity, final_data, final_fit,
               final_covariance, plot_file, ideal_activity,
               reduced_chi_squared, console, save_data, final_data_csv>>

vars == <<bounceVars, decayVars>>

\* the decay script has not been started (the bounce script runs)
DecayNotRun ==
    /\ dpc = "not_run"
    /\ nuclear_data_1 = <<>> /\ nuclear_data_2 = <<>>
    /\ file_ab = <<>> /\ row_index = 0 /\ null_filtered_data = <<>>
    /\ fit = <<>> /\ trial_activity = <<>> /\ final_data = <<>>
    /\ final_fit = <<>> /\ final_covariance = <<>> /\ plot_file = <<>>
    /\ ideal_activity = <<>> /\ reduced_chi_squared = <<>>
    /\ console = <<>> /\ save_data = <<>> /\ final_data_csv = <<>>

InitBounce ==
    /\ pc = "initial_height_prompt"
    /\ initial_height = Unset
    /\ minimum_height = Unset
    /\ energy_loss_coefficient = Unset
    /\ new_height = Unset
    /\ height_list = <<>>
    /\ reported_bounces = Unset
    /\ total_time = Unset
    /\ DecayNotRun

\* ------------------------------------------------------------------------
\* main: the three validation loops
\* ------------------------------------------------------------------------

InitialHeightRejected(value) == FLe(value, 0)

EnterInitialHeight ==
    /\ pc = "initial_height_prompt"
    /\ \E entry \in TypedEntries :
          /\ initial_height' = entry
          /\ pc' = IF entry = Text \/ InitialHeightRejected(entry)
                   THEN "initial_height_prompt"
                   ELSE "minimum_height_prompt"
    /\ UNCHANGED <<minimum_height, energy_loss_coefficient, new_height,
                   height_list, reported_bounces, total_time>>
    /\ UNCHANGED decayVars

MinimumHeightRejected(value, initial) ==
    FLt(value, 0) \/ FGe(value, initial)

EnterMinimumHeight ==
    /\ pc = "minimum_height_prompt"
    /\ \E entry \in TypedEntries :
          /\ minimum_height' = entry
          /\ pc' = IF entry = Text \/ MinimumHeightRejected(entry, initial_height)
                   THEN "minimum_height_prompt"
                   ELSE "coefficient_prompt"
    /\ UNCHANGED <<initial_height, energy_loss_coefficient, new_height,
                   height_list, reported_bounces, total_time>>
    /\ UNCHANGED decayVars

CoefficientRejected(value) == FLe(value, 0) \/ FGe(value, One)

EnterEnergyLossCoefficient ==
    /\ pc = "coefficient_prompt"
    /\ \E entry \in TypedEntries :
          /\ energy_loss_coefficient' = entry
          /\ pc' = IF entry = Text \/ CoefficientRejected(entry)
                   THEN "coefficient_prompt"
                   ELSE "calculate_height_values"
    /\ UNCHANGED <<initial_height, minimum_height, new_height,
                   height_list, reported_bounces, total_time>>
    /\ UNCHANGED decayVars

\* ------------------------------------------------------------------------
\* calculate_height_values
\* ------------------------------------------------------------------------

CallHeightValues ==
    /\ pc = "calculate_height_values"
    /\ new_height' = initial_height
    /\ height_list' = <<>>
    /\ pc' = "height_loop"
    /\ UNCHANGED <<initial_height, minimum_height, energy_loss_coefficient,
                   reported_bounces, total_time>>
    /\ UNCHANGED decayVars

\* the loop test written with >= instead of >
HeightLoopGuardInclusive(height, minimum) == FGe(height, minimum)
HeightLoopGuard(height, minimum) == FGt(height, minimum)

HeightLoop ==
    /\ pc = "height_loop"
    /\ HeightLoopGuard(new_height, minimum_height)
    /\ Len(height_list) < MaxListLen
    /\ new_height' = FMul(new_height, energy_loss_coefficient)
    /\ height_list' = Append(height_list, new_height')
    /\ UNCHANGED <<pc, initial_height, minimum_height, energy_loss_coefficient,
                   reported_bounces, total_time>>
    /\ UNCHANGED decayVars

HeightLoopMemoryError ==
    /\ pc = "height_loop"
    /\ HeightLoopGuard(new_height, minimum_height)
    /\ Len(height_list) >= MaxListLen
    /\ pc' = "memory_error"
    /\ UNCHANGED <<initial_height, minimum_height, energy_loss_coefficient,
                   new_height, height_list, reported_bounces, total_time>>
    /\ UNCHANGED decayVars

\* the printed count without the "- 1"
BounceCountLength(list) == Len(list)
BounceCount(list) == Len(list) - 1

HeightReturn ==
    /\ pc = "height_loop"
    /\ ~HeightLoopGuard(new_height, minimum_height)
    /\ reported_bounces' = BounceCount(height_list)
    /\ pc' = "calculate_time_values"
    /\ UNCHANGED <<initial_height, minimum_height, energy_loss_coefficient,
                   new_height, height_list, total_time>>
    /\ UNCHANGED decayVars

\* ------------------------------------------------------------------------
\* calculate_time_values
\* ------------------------------------------------------------------------

\* the slice taken over the whole list
CountedHeightsAll(list) == list
\* height_list[:(len(height_list)-1)]; on an empty list the stop index is -1
\* and the slice is empty
CountedHeights(list) ==
    IF Len(list) = 0 THEN <<>> ELSE SubSeq(list, 1, Len(list) - 1)

BounceTime(height) ==
    FSqrt(FDiv(FMul(FromInt(8), height), GRAVITATIONAL_ACCELERATION_CONSTANT))

ZerothBounceTime(initial) ==
    FSqrt(FDiv(FMul(FromInt(2), initial), GRAVITATIONAL_ACCELERATION_CONSTANT))

\* np.sum: the elements added one after the other, starting from 0.0
RECURSIVE NpSum(_)
NpSum(list) ==
    IF Len(list) = 0 THEN 0
    ELSE FAdd(NpSum(SubSeq(list, 1, Len(list) - 1)), list[Len(list)])

calculate_time_values(initial, list) ==
    LET bounce_time_list ==
            [i \in 1..Len(CountedHeights(list)) |->
                BounceTime(CountedHeights(list)[i])]
    IN  FAdd(NpSum(bounce_time_list), ZerothBounceTime(initial))

TimeValues ==
    /\ pc = "calculate_time_values"
    /\ total_time' = calculate_time_values(initial_height, height_list)
    /\ pc' = "done"
    /\ UNCHANGED <<initial_height, minimum_height, energy_loss_coefficient,
                   new_height, height_list, reported_bounces>>
    /\ UNCHANGED decayVars

NextBounce ==
    \/ EnterInitialHeight
    \/ EnterMinimumHeight
    \/ EnterEnergyLossCoefficient
    \/ CallHeightValues
    \/ HeightLoop
    \/ HeightLoopMemoryError
    \/ HeightReturn
    \/ TimeValues

SpecBounce == InitBounce /\ [][NextBounce]_vars

TypeOKBounce ==
    /\ pc \in {"initial_height_prompt", "minimum_height_prompt",
               "coefficient_prompt", "calculate_height_values", "height_loop",
               "memory_error", "calculate_time_values", "done"}
    /\ Len(height_list) <= MaxListLen

\* ------------------------------------------------------------------------
\* Decay script: main
\* ------------------------------------------------------------------------

\* the order in which main runs its stages
AfterStageDeriveBeforePlot(stage) ==
    CASE stage = "read_in" -> "remove_null_values"
      [] stage = "remove_null_values" -> "first_fit"
      [] stage = "first_fit" -> "trial_activity"
      [] stage = "trial_activity" -> "remove_outliers"
      [] stage = "remove_outliers" -> "refit"
      [] stage = "refit" -> "ideal_activity"
      [] stage = "ideal_activity" -> "chi_squared"
      [] stage = "chi_squared" -> "half_life"
      [] stage = "half_life" -> "plot"
      [] stage = "plot" -> "report"
      [] stage = "report" -> "save_prompt"
      [] stage = "save_prompt" -> "done"
AfterStage(stage) ==
    CASE stage = "read_in" -> "remove_null_values"
      [] stage = "remove_null_values" -> "first_fit"
      [] stage = "first_fit" -> "trial_activity"
      [] stage = "trial_activity" -> "remove_outliers"
      [] stage = "remove_outliers" -> "refit"
      [] stage = "refit" -> "plot"
      [] stage = "plot" -> "ideal_activity"
      [] stage = "ideal_activity" -> "chi_squared"
      [] stage = "chi_squared" -> "half_life"
      [] stage = "half_life" -> "report"
      [] stage = "report" -> "save_prompt"
      [] stage = "save_prompt" -> "done"

\* the sequences over S of length lo..hi
SeqsOfLength(S, lo, hi) == UNION {[1..n -> S] : n \in lo..hi}

\* rows of one data file, at most
MaxFileRows == 2
\* rows of a cleaned data set, at most
MaxDataRows == 3

\* decay constants that curve_fit may return (per second)
FitOutcomes ==
    {<<Canon(1, 3600, 0), Canon(1, 1800, 0)>>,
     <<Canon(1, 1200, 0), Canon(1, 3600, 0)>>}
\* covariance matrices that curve_fit may return
CovarianceOutcomes ==
    {<< <<Num(1, -10), Num(0, 0)>>, <<Num(0, 0), Num(4, -10)>> >>}
\* answers typed at the save prompt
SaveAnswers == {"yes", "no", "Yes"}

\* rows (hours, terabecquerel, terabecquerel) of the data files of a whole run
PipelineFileRows ==
    {<<Num(1, 0), Num(77, 0), Num(3, 0)>>,
     <<Num(2, 0), Num(40, 0), Num(1, 0)>>,
     <<Num(1, 0), NumNaN, Num(3, 0)>>}

\* rows of the data files for the cleaning step alone
CleaningFileRows ==
    {<<Num(1, 0), Num(2, 0), Num(3, 0)>>,
     <<Num(2, 0), Num(5, 0), Num(1, 0)>>,
     <<NumNaN, Num(2, 0), Num(3, 0)>>,
     <<Num(1, 0), NumNaN, Num(3, 0)>>,
     <<Num(1, 0), Num(2, 0), NumNaN>>,
     <<NumNaN, NumNaN, NumNaN>>}

\* times (seconds) and model predictions (becquerel) for the steps alone
StepTimes == {Num(3600, 0), Num(7200, 0)}
OutlierRows ==
    {<<t, a, u>> : t \in StepTimes, a \in {Num(2, 12), Num(5, 12)},
                   u \in {Num(0, 0), Num(1, 12), Num(2, 12)}}
OutlierPredictions == [StepTimes -> {Num(5, 12), Num(8, 12)}]
ChiRows ==
    {<<t, a, u>> : t \in StepTimes, a \in {Num(2, 12), Num(5, 12)},
                   u \in {Num(1, 12), Num(2, 12)}}
ChiPredictions == [StepTimes -> {Num(4, 12), Num(5, 12)}]

\* the bounce script has not been started (the decay script runs)
BounceNotRun ==
    /\ pc = "not_run"
    /\ initial_height = Unset /\ minimum_height = Unset
    /\ energy_loss_coefficient = Unset /\ new_height = Unset
    /\ height_list = <<>> /\ reported_bounces = Unset /\ total_time = Unset

InitDecay ==
    /\ BounceNotRun
    /\ dpc = "read_in"
    /\ nuclear_data_1 \in SeqsOfLength(PipelineFileRows, 0, MaxFileRows)
    /\ nuclear_data_2 \in SeqsOfLength(PipelineFileRows, 0, MaxFileRows)
    /\ file_ab = <<>> /\ row_index = 0 /\ null_filtered_data = <<>>
    /\ fit = <<>> /\ trial_activity = <<>> /\ final_data = <<>>
    /\ final_fit = <<>> /\ final_covariance = <<>> /\ plot_file = <<>>
    /\ ideal_activity = <<>> /\ reduced_chi_squared = <<>>
    /\ console = <<>> /\ save_data = <<>> /\ final_data_csv = <<>>

\* read_in: np.vstack raises ValueError on a file without data rows
ReadIn ==
    /\ dpc = "read_in"
    /\ Len(nuclear_data_1) > 0 /\ Len(nuclear_data_2) > 0
    /\ file_ab' = nuclear_data_1 \o nuclear_data_2
    /\ null_filtered_data' = <<>>
    /\ row_index' = 1
    /\ dpc' = AfterStage("read_in")
    /\ UNCHANGED <<nuclear_data_1, nuclear_data_2, fit, trial_activity,
                   final_data, final_fit, final_covariance, plot_file,
                   ideal_activity, reduced_chi_squared, console, save_data,
                   final_data_csv>>
    /\ UNCHANGED bounceVars

ReadInRaises ==
    /\ dpc = "read_in"
    /\ Len(nuclear_data_1) = 0 \/ Len(nuclear_data_2) = 0
    /\ dpc' = "failed"
    /\ UNCHANGED <<nuclear_data_1, nuclear_data_2, file_ab, row_index,
                   null_filtered_data, fit, trial_activity, final_data,
                   final_fit, final_covariance, plot_file, ideal_activity,
                   reduced_chi_squared, console, save_data, final_data_csv>>
    /\ UNCHANGED bounceVars

\* remove_null_values: one pass of "for row in file_ab"; row is a view, so
\* the conversions are written into file_ab
RemoveNullRow ==
    /\ dpc = "remove_null_values"
    /\ row_index <= Len(file_ab)
    /\ IF RowIsKept(file_ab[row_index])
       THEN /\ file_ab' = [file_ab EXCEPT
                              ![row_index] = ConvertedRow(file_ab[row_index])]
            /\ null_filtered_data' =
                  Append(null_filtered_data, ConvertedRow(file_ab[row_index]))
       ELSE UNCHANGED <<file_ab, null_filtered_data>>
    /\ row_index' = row_index + 1
    /\ UNCHANGED <<dpc, nuclear_data_1, nuclear_data_2, fit, trial_activity,
                   final_data, final_fit, final_covariance, plot_file,
                   ideal_activity, reduced_chi_squared, console, save_data,
                   final_data_csv>>
    /\ UNCHANGED bounceVars

RemoveNullReturn ==
    /\ dpc = "remove_null_values"
    /\ row_index > Len(file_ab)
    /\ dpc' = AfterStage("remove_null_values")
    /\ UNCHANGED <<nuclear_data_1, nuclear_data_2, file_ab, row_index,
                   null_filtered_data, fit, trial_activity, final_data,
                   final_fit, final_covariance, plot_file, ideal_activity,
                   reduced_chi_squared, console, save_data, final_data_csv>>
    /\ UNCHANGED bounceVars

\* curve_fit needs at least as many points as parameters
CurveFitAccepts(data) == Len(data) >= 2

FirstFit ==
    /\ dpc = "first_fit"
    /\ CurveFitAccepts(null_filtered_data)
    /\ \E outcome \in FitOutcomes : fit' = <<outcome>>
    /\ dpc' = AfterStage("first_fit")
    /\ UNCHANGED <<nuclear_data_1, nuclear_data_2, file_ab, row_index,
                   null_filtered_data, trial_activity, final_data,
                   final_fit, final_covariance, plot_file, ideal_activity,
                   reduced_chi_squared, console, save_data, final_data_csv>>
    /\ UNCHANGED bounceVars

\* curve_fit raises (too few points, or no convergence); main does not catch
FirstFitRaises ==
    /\ dpc = "first_fit"
    /\ dpc' = "failed"
    /\ UNCHANGED <<nuclear_data_1, nuclear_data_2, file_ab, row_index,
                   null_filtered_data, fit, trial_activity, final_data,
                   final_fit, final_covariance, plot_file, ideal_activity,
                   reduced_chi_squared, console, save_data, final_data_csv>>
    /\ UNCHANGED bounceVars

TrialActivity ==
    /\ dpc = "trial_activity"
    /\ trial_activity' =
          rubidium_activity_array(Column(null_filtered_data, 1),
                                  fit[1][1], fit[1][2])
    /\ dpc' = AfterStage("trial_activity")
    /\ UNCHANGED <<nuclear_data_1, nuclear_data_2, file_ab, row_index,
                   null_filtered_data, fit, final_data,
                   final_fit, final_covariance, plot_file, ideal_activity,
                   reduced_chi_squared, console, save_data, final_data_csv>>
    /\ UNCHANGED bounceVars

RemoveOutliers ==
    /\ dpc = "remove_outliers"
    /\ final_data' =
          <<remove_outliers(trial_activity, Column(null_filtered_data, 1),
                            Column(null_filtered_data, 2),
                            Column(null_filtered_data, 3))>>
    /\ dpc' = AfterStage("remove_outliers")
    /\ UNCHANGED <<nuclear_data_1, nuclear_data_2, file_ab, row_index,
                   null_filtered_data, fit, trial_activity,
                   final_fit, final_covariance, plot_file, ideal_activity,
                   reduced_chi_squared, console, save_data, final_data_csv>>
    /\ UNCHANGED bounceVars

Refit ==
    /\ dpc = "refit"
    /\ CurveFitAccepts(final_data[1])
    /\ \E outcome \in FitOutcomes : final_fit' = <<outcome>>
    /\ \E covariance \in CovarianceOutcomes : final_covariance' = <<covariance>>
    /\ dpc' = AfterStage("refit")
    /\ UNCHANGED <<nuclear_data_1, nuclear_data_2, file_ab, row_index,
                   null_filtered_data, fit, trial_activity, final_data,
                   plot_file, ideal_activity,
                   reduced_chi_squared, console, save_data, final_data_csv>>
    /\ UNCHANGED bounceVars

RefitRaises ==
    /\ dpc = "refit"
    /\ dpc' = "failed"
    /\ UNCHANGED <<nuclear_data_1, nuclear_data_2, file_ab, row_index,
                   null_filtered_data, fit, trial_activity, final_data,
                   final_fit, final_covariance, plot_file, ideal_activity,
                   reduced_chi_squared, console, save_data, final_data_csv>>
    /\ UNCHANGED bounceVars

\* main passes final_fit[1], final_fit[0] (Python indices) in this order
Plot ==
    /\ dpc = "plot"
    /\ plot_file' =
          <<plot_rubidium_activity(Column(final_data[1], 1),
                                   Column(final_data[1], 2),
                                   Column(final_data[1], 3),
                                   final_fit[1][2], final_fit[1][1])>>
    /\ dpc' = AfterStage("plot")
    /\ UNCHANGED <<nuclear_data_1, nuclear_data_2, file_ab, row_index,
                   null_filtered_data, fit, trial_activity, final_data,
                   final_fit, final_covariance, ideal_activity,
                   reduced_chi_squared, console, save_data, final_data_csv>>
    /\ UNCHANGED bounceVars

IdealActivity ==
    /\ dpc = "ideal_activity"
    /\ ideal_activity' =
          rubidium_activity_array(Column(final_data[1], 1),
                                  final_fit[1][2], final_fit[1][1])
    /\ dpc' = AfterStage("ideal_activity")
    /\ UNCHANGED <<nuclear_data_1, nuclear_data_2, file_ab, row_index,
                   null_filtered_data, fit, trial_activity, final_data,
                   final_fit, final_covariance, plot_file,
                   reduced_chi_squared, console, save_data, final_data_csv>>
    /\ UNCHANGED bounceVars

ChiSquared ==
    /\ dpc = "chi_squared"
    /\ reduced_chi_squared' =
          <<chi_squared_value(Column(final_data[1], 1),
                              Column(final_data[1], 2),
                              Column(final_data[1], 3),
                              ideal_activity, final_data[1])>>
    /\ console' = Append(console, <<"reduced chi-squared",
                                    reduced_chi_squared'[1]>>)
    /\ dpc' = AfterStage("chi_squared")
    /\ UNCHANGED <<nuclear_data_1, nuclear_data_2, file_ab, row_index,
                   null_filtered_data, fit, trial_activity, final_data,
                   final_fit, final_covariance, plot_file, ideal_activity,
                   save_data, final_data_csv>>
    /\ UNCHANGED bounceVars

HalfLife ==
    /\ dpc = "half_life"
    /\ console' = console \o half_life(final_fit[1], final_covariance[1])
    /\ dpc' = AfterStage("half_life")
    /\ UNCHANGED <<nuclear_data_1, nuclear_data_2, file_ab, row_index,
                   null_filtered_data, fit, trial_activity, final_data,
                   final_fit, final_covariance, plot_file, ideal_activity,
                   reduced_chi_squared, save_data, final_data_csv>>
    /\ UNCHANGED bounceVars

\* the 90-minute activity and the three report lines
Report ==
    /\ dpc = "report"
    /\ LET time_specific_activity ==
               rubidium_activity(Num(5400, 0), final_fit[1][2], final_fit[1][1])
       IN  console' = console \o
              << <<"Rubidium-79 decay constant", final_fit[1][2],
                   NSqrt(final_covariance[1][2][2])>>,
                 <<"Strontium-79 decay constant", final_fit[1][1],
                   NSqrt(final_covariance[1][1][1])>>,
                 <<"activity at 90 minutes",
                   NDiv(time_specific_activity, Num(1, 12))>> >>
    /\ dpc' = AfterStage("report")
    /\ UNCHANGED <<nuclear_data_1, nuclear_data_2, file_ab, row_index,
                   null_filtered_data, fit, trial_activity, final_data,
                   final_fit, final_covariance, plot_file, ideal_activity,
                   reduced_chi_squared, save_data, final_data_csv>>
    /\ UNCHANGED bounceVars

SavePrompt ==
    /\ dpc = "save_prompt"
    /\ \E answer \in SaveAnswers :
          /\ save_data' = <<answer>>
          /\ IF answer = "yes"
             THEN /\ final_data_csv' = final_data
                  /\ UNCHANGED console
             ELSE /\ console' = Append(console, <<"Array has not been saved">>)
                  /\ UNCHANGED final_data_csv
    /\ dpc' = AfterStage("save_prompt")
    /\ UNCHANGED <<nuclear_data_1, nuclear_data_2, file_ab, row_index,
                   null_filtered_data, fit, trial_activity, final_data,
                   final_fit, final_covariance, plot_file, ideal_activity,
                   reduced_chi_squared>>
    /\ UNCHANGED bounceVars

NextDecay ==
    \/ ReadIn
    \/ ReadInRaises
    \/ RemoveNullRow
    \/ RemoveNullReturn
    \/ FirstFit
    \/ FirstFitRaises
    \/ TrialActivity
    \/ RemoveOutliers
    \/ Refit
    \/ RefitRaises
    \/ Plot
    \/ IdealActivity
    \/ ChiSquared
    \/ HalfLife
    \/ Report
    \/ SavePrompt

SpecDecay == InitDecay /\ [][NextDecay]_vars

\* remove_null_values alone, on the array read_in returned
InitCleaning ==
    /\ BounceNotRun
    /\ dpc = "remove_null_values"
    /\ nuclear_data_1 \in SeqsOfLength(CleaningFileRows, 1, MaxFileRows)
    /\ nuclear_data_2 \in SeqsOfLength(CleaningFileRows, 1, MaxFileRows)
    /\ file_ab = nuclear_data_1 \o nuclear_data_2
    /\ row_index = 1 /\ null_filtered_data = <<>>
    /\ fit = <<>> /\ trial_activity = <<>> /\ final_data = <<>>
    /\ final_fit = <<>> /\ final_covariance = <<>> /\ plot_file = <<>>
    /\ ideal_activity = <<>> /\ reduced_chi_squared = <<>>
    /\ console = <<>> /\ save_data = <<>> /\ final_data_csv = <<>>

NextCleaning == RemoveNullRow \/ RemoveNullReturn

SpecCleaning == InitCleaning /\ [][NextCleaning]_vars

\* remove_outliers alone, on cleaned data and the predictions of a first fit
InitOutliers ==
    /\ BounceNotRun
    /\ dpc = "remove_outliers"
    /\ nuclear_data_1 = <<>> /\ nuclear_data_2 = <<>>
    /\ file_ab = <<>> /\ row_index = 0
    /\ null_filtered_data \in SeqsOfLength(OutlierRows, 2, MaxDataRows)
    /\ fit \in {<<outcome>> : outcome \in FitOutcomes}
    /\ \E prediction \in OutlierPredictions :
          trial_activity = [i \in 1..Len(null_filtered_data) |->
                               prediction[null_filtered_data[i][1]]]
    /\ final_data = <<>>
    /\ final_fit = <<>> /\ final_covariance = <<>> /\ plot_file = <<>>
    /\ ideal_activity = <<>> /\ reduced_chi_squared = <<>>
    /\ console = <<>> /\ save_data = <<>> /\ final_data_csv = <<>>

NextOutliers == RemoveOutliers

SpecOutliers == InitOutliers /\ [][NextOutliers]_vars

\* chi_squared_value alone, on filtered data and the predictions of the refit
InitChi ==
    /\ BounceNotRun
    /\ dpc = "chi_squared"
    /\ nuclear_data_1 = <<>> /\ nuclear_data_2 = <<>>
    /\ file_ab = <<>> /\ row_index = 0 /\ null_filtered_data = <<>>
    /\ fit = <<>> /\ trial_activity = <<>>
    /\ final_data \in {<<rows>> : rows \in SeqsOfLength(ChiRows, 2, MaxDataRows)}
    /\ final_fit \in {<<outcome>> : outcome \in FitOutcomes}
    /\ final_covariance \in {<<covariance>> : covariance \in CovarianceOutcomes}
    /\ plot_file = <<>>
    /\ \E prediction \in ChiPredictions :
          ideal_activity = [i \in 1..Len(final_data[1]) |->
                               prediction[final_data[1][i][1]]]
    /\ reduced_chi_squared = <<>>
    /\ console = <<>> /\ save_data = <<>> /\ final_data_csv = <<>>

NextChi == ChiSquared

SpecChi == InitChi /\ [][NextChi]_vars

\* decay constants that the second curve_fit may return
ActivityConstants ==
    {Num(1, -3), Num(3, -3), Num(7, -4), Num(278, -6), Num(556, -6)}
\* fitted pairs (strontium, rubidium) of distinct constants
ActivityFits ==
    {pair \in ActivityConstants \X ActivityConstants : pair[1] # pair[2]}
\* times (seconds) of the filtered rows
ActivityTimes == {Num(1800, 0), Num(3600, 0)}
\* distance of a measured activity from the fitted model, in uncertainties
ActivityScatter == {0 - 1, 2}
\* filtered rows (seconds, becquerel, becquerel): remove_outliers kept them,
\* so each lies within three uncertainties of the model
ActivityRows(outcome) ==
    {<<time,
       NAdd(rubidium_activity(time, outcome[1], outcome[2]),
            NMul(Num(scatter, 0), Num(1, 12))),
       Num(1, 12)>> : time \in ActivityTimes, scatter \in ActivityScatter}

\* main from the return of the second curve_fit on
InitActivity ==
    /\ BounceNotRun
    /\ dpc = "plot"
    /\ nuclear_data_1 = <<>> /\ nuclear_data_2 = <<>>
    /\ file_ab = <<>> /\ row_index = 0 /\ null_filtered_data = <<>>
    /\ fit = <<>> /\ trial_activity = <<>>
    /\ final_fit \in {<<outcome>> : outcome \in ActivityFits}
    /\ final_data \in
          {<<rows>> :
              rows \in SeqsOfLength(ActivityRows(final_fit[1]), 1, MaxDataRows)}
    /\ final_covariance \in {<<covariance>> : covariance \in CovarianceOutcomes}
    /\ plot_file = <<>>
    /\ ideal_activity = <<>>
    /\ reduced_chi_squared = <<>>
    /\ console = <<>> /\ save_data = <<>> /\ final_data_csv = <<>>

NextActivity ==
    \/ Plot
    \/ IdealActivity
    \/ ChiSquared
    \/ HalfLife
    \/ Report

SpecActivity == InitActivity /\ [][NextActivity]_vars

\* ------------------------------------------------------------------------
\* Properties of the bounce script
\* ------------------------------------------------------------------------

\* main has left the validation loops
InComputation ==
    pc \in {"calculate_height_values", "height_loop", "memory_error",
            "calculate_time_values", "done"}

\* calculate_height_values has returned its list
Returned == pc \in {"calculate_time_values", "done"}

\* the input triples the specification calls valid
ValidInputs ==
    /\ FGt(initial_height, 0)
    /\ FGe(minimum_height, 0)
    /\ FLt(minimum_height, initial_height)
    /\ FGt(energy_loss_coefficient, 0)
    /\ FLt(energy_loss_coefficient, One)

\* C1: for every valid input triple (minimum_height = 0 included) the loop of
\* calculate_height_values ends and the function returns.
\* The loop is deterministic, so it fails to end exactly when it repeats a
\* height above the floor, and then it appends until memory_error.
C1_LoopTerminates ==
    (InComputation /\ ValidInputs) => pc # "memory_error"

\* C5 as stated: in the returned list every element but the last is strictly
\* above minimum_height and the last is strictly below it.
C5_LastStrictlyBelowFloor ==
    (Returned /\ ValidInputs) =>
        /\ Len(height_list) >= 1
        /\ \A i \in 1..(Len(height_list) - 1) :
              FGt(height_list[i], minimum_height)
        /\ FLt(height_list[Len(height_list)], minimum_height)

\* C5 amended: in the returned list every element but the last is strictly
\* above minimum_height and the last is less than or equal to it (the first
\* height that is not above the floor).
C5_LastNotAboveFloor ==
    (Returned /\ ValidInputs) =>
        /\ Len(height_list) >= 1
        /\ \A i \in 1..(Len(height_list) - 1) :
              FGt(height_list[i], minimum_height)
        /\ FLe(height_list[Len(height_list)], minimum_height)

\* a returned list of several heights whose last height is exactly the floor
C5_Witness ==
    /\ Returned /\ ValidInputs
    /\ Len(height_list) >= 2
    /\ height_list[Len(height_list)] = minimum_height

\* C6: the computation is reached only with initial_height > 0,
\* 0 <= minimum_height < initial_height and 0 < energy_loss_coefficient < 1.
C6_ValidationGatesComputation == InComputation => ValidInputs

\* C7: for valid inputs the height sequence is strictly decreasing, starting
\* below initial_height.
C7_StrictlyDecreasing ==
    (InComputation /\ ValidInputs) =>
        /\ Len(height_list) >= 1 => FLt(height_list[1], initial_height)
        /\ \A i \in 1..(Len(height_list) - 1) :
              FLt(height_list[i + 1], height_list[i])

\* the heights of a list that are strictly above the floor, in order
HeightsAbove(list, minimum) ==
    SelectSeq(list, LAMBDA height : FGt(height, minimum))

\* C8: the total time is the zeroth-bounce fall time plus the sum of the
\* rise/fall times of exactly the heights above the minimum.
C8_TotalTime ==
    pc = "done" =>
        total_time =
            FAdd(NpSum([i \in 1..Len(HeightsAbove(height_list, minimum_height))
                          |-> BounceTime(HeightsAbove(height_list,
                                                      minimum_height)[i])]),
                 ZerothBounceTime(initial_height))

\* a finished run with several counted bounces and a last height that would
\* add time if it were counted
C8_Witness ==
    /\ pc = "done" /\ ValidInputs
    /\ Len(height_list) >= 3
    /\ BounceTime(height_list[Len(height_list)]) > 0
    /\ total_time < Inf

\* C9: the reported count is the length of the returned list minus one, and
\* for valid inputs it is non-negative and equals the number of heights
\* strictly above minimum_height.
C9_BounceCount ==
    Returned =>
        /\ reported_bounces = Len(height_list) - 1
        /\ ValidInputs =>
              /\ reported_bounces >= 0
              /\ reported_bounces =
                    Cardinality({i \in 1..Len(height_list) :
                                    FGt(height_list[i], minimum_height)})

\* a valid run that reports at least two bounces
C9_Witness == Returned /\ ValidInputs /\ reported_bounces >= 2

\* ------------------------------------------------------------------------
\* Properties of the decay script
\* ------------------------------------------------------------------------

\* the array read_in returned, before remove_null_values touched it
OriginalRows == nuclear_data_1 \o nuclear_data_2

RowComplete(row) == \A j \in 1..3 : ~NumIsNaN(row[j])

\* the loop of remove_null_values has visited every row
CleaningDone == Len(file_ab) > 0 /\ row_index > Len(file_ab)

\* C10: remove_null_values returns, in input order, exactly one converted row
\* (time*3600, activity*10^12, uncertainty*10^12) per input row without a
\* missing field, and leaves the input rows with a missing field unchanged.
C10_RemoveNullValues ==
    CleaningDone =>
        LET complete == SelectSeq(OriginalRows, RowComplete)
        IN  /\ Len(null_filtered_data) = Len(complete)
            /\ \A j \in 1..Len(complete) :
                  null_filtered_data[j] =
                      <<NMul(complete[j][1], Num(3600, 0)),
                        NMul(complete[j][2], Num(1, 12)),
                        NMul(complete[j][3], Num(1, 12))>>
            /\ Len(file_ab) = Len(OriginalRows)
            /\ \A i \in 1..Len(OriginalRows) :
                  ~RowComplete(OriginalRows[i]) => file_ab[i] = OriginalRows[i]

\* a cleaned file with a rejected row between two different retained rows
C10_Witness ==
    /\ CleaningDone
    /\ Len(null_filtered_data) >= 2
    /\ null_filtered_data[1] # null_filtered_data[2]
    /\ \E i \in 2..(Len(OriginalRows) - 1) :
          /\ ~RowComplete(OriginalRows[i])
          /\ RowComplete(OriginalRows[i - 1])
          /\ RowComplete(OriginalRows[i + 1])

\* the cleaned rows that pass a test against the model prediction, in order
RowsPassing(test(_, _, _)) ==
    LET kept == SelectSeq([i \in 1..Len(null_filtered_data) |-> i],
                          LAMBDA i : test(trial_activity[i],
                                          null_filtered_data[i][2],
                                          null_filtered_data[i][3]))
    IN  [j \in 1..Len(kept) |-> null_filtered_data[kept[j]]]

DeviationAtMostThreeSigma(trial, activity, uncertainty) ==
    NLe(NAbs(NSub(trial, activity)), NMul(Num(3, 0), uncertainty))

DeviationBelowThreeSigma(trial, activity, uncertainty) ==
    NLt(NAbs(NSub(trial, activity)), NMul(Num(3, 0), uncertainty))

\* C2 as stated: remove_outliers keeps, in order and whole, exactly the rows
\* with |trial_activity - activity| <= 3 * activity_uncertainty.
C2_KeepsUpToThreeSigma ==
    final_data # <<>> =>
        final_data[1] = RowsPassing(DeviationAtMostThreeSigma)

\* C2 amended: remove_outliers keeps, in order and whole, exactly the rows
\* with |trial_activity - activity| < 3 * activity_uncertainty; a row that
\* deviates by exactly three uncertainties is discarded.
C2_KeepsBelowThreeSigma ==
    final_data # <<>> =>
        final_data[1] = RowsPassing(DeviationBelowThreeSigma)

\* a filtered set that lost a row deviating by exactly three non-zero
\* uncertainties and kept another row
C2_Witness ==
    /\ final_data # <<>>
    /\ Len(final_data[1]) >= 1
    /\ \E i \in 1..Len(null_filtered_data) :
          /\ null_filtered_data[i][3] # Num(0, 0)
          /\ NAbs(NSub(trial_activity[i], null_filtered_data[i][2]))
                = NMul(Num(3, 0), null_filtered_data[i][3])

\* factors by which the uncertainties are rescaled
ScaleFactors == {Num(2, 0), Num(3, 0), Num(-1, 0), Num(5, -1)}

\* the reduced chi-squared of the same data with every error multiplied by k
RescaledChiSquared(k) ==
    chi_squared_value(Column(final_data[1], 1), Column(final_data[1], 2),
                      [i \in 1..Len(final_data[1]) |->
                          NMul(k, final_data[1][i][3])],
                      ideal_activity, final_data[1])

\* C3 as stated: multiplying every error by the same non-zero k leaves the
\* reduced chi-squared unchanged.
C3_InvariantUnderRescaling ==
    reduced_chi_squared # <<>> =>
        \A k \in ScaleFactors : RescaledChiSquared(k) = reduced_chi_squared[1]

\* C3 amended: multiplying every error by the same non-zero k divides the
\* reduced chi-squared by k^2.
C3_RescalingDividesByKSquared ==
    reduced_chi_squared # <<>> =>
        \A k \in ScaleFactors :
            RescaledChiSquared(k) = NDiv(reduced_chi_squared[1], NMul(k, k))

\* a finite, non-zero reduced chi-squared over at least three points
C3_Witness ==
    /\ reduced_chi_squared # <<>>
    /\ Len(final_data[1]) >= 3
    /\ reduced_chi_squared[1].d # 0
    /\ reduced_chi_squared[1].n # 0

\* what main has done so far, read from what it has produced
Loaded == Len(file_ab) > 0
FirstFitted == fit # <<>>
OutliersRejected == final_data # <<>>
Refitted == final_fit # <<>>
Plotted == plot_file # <<>>
ChiSquaredDerived == reduced_chi_squared # <<>>
Printed(label) == \E i \in 1..Len(console) : console[i][1] = label
HalfLivesDerived == Printed("Rubidium-79 half-life")
Reported == Printed("activity at 90 minutes")
ExportAnswered == save_data # <<>>

\* the part of the stage order on which the claim and the code agree
StagesInOrder ==
    /\ CleaningDone => Loaded
    /\ FirstFitted => CleaningDone
    /\ OutliersRejected => FirstFitted
    /\ Refitted => OutliersRejected
    /\ ExportAnswered => (Reported /\ dpc = "done")
    /\ final_data_csv # <<>> => save_data = <<"yes">>
    /\ dpc = "done" =>
          (Plotted /\ ChiSquaredDerived /\ HalfLivesDerived /\ Reported
             /\ ExportAnswered)

\* C4 as stated: load, clean, first fit, outlier rejection, refit, reduced
\* chi-squared and half-lives, then plot and report, then the export prompt.
C4_DeriveBeforePlot ==
    /\ StagesInOrder
    /\ (ChiSquaredDerived \/ HalfLivesDerived) => Refitted
    /\ Plotted => (ChiSquaredDerived /\ HalfLivesDerived)
    /\ Reported => Plotted

\* C4 amended: load, clean, first fit, outlier rejection, refit, then the
\* plot, then the reduced chi-squared, then the half-lives, then the report
\* of the decay constants and the 90-minute activity, then the export prompt
\* as the last step.
C4_PlotBeforeDerive ==
    /\ StagesInOrder
    /\ Plotted => Refitted
    /\ ChiSquaredDerived => Plotted
    /\ HalfLivesDerived => ChiSquaredDerived
    /\ Reported => HalfLivesDerived

\* a complete run that ended with the export
C4_Witness ==
    /\ dpc = "done"
    /\ Plotted /\ ChiSquaredDerived /\ HalfLivesDerived /\ Reported
    /\ final_data_csv # <<>>

\* the fitted constants in the order curve_fit fitted them in
FittedStrontium == final_fit[1][1]
FittedRubidium == final_fit[1][2]

\* the predictions of the fitted model for what main has produced so far
FittedCurve ==
    plot_rubidium_activity(Column(final_data[1], 1), Column(final_data[1], 2),
                           Column(final_data[1], 3),
                           FittedStrontium, FittedRubidium).fitted_activity
FittedIdealActivity ==
    rubidium_activity_array(Column(final_data[1], 1),
                            FittedStrontium, FittedRubidium)
FittedNinetyMinutes ==
    NDiv(rubidium_activity(Num(5400, 0), FittedStrontium, FittedRubidium),
         Num(1, 12))

\* the 90-minute activity that main printed
PrintedNinetyMinutes ==
    LET line == CHOOSE i \in 1..Len(console) :
                    console[i][1] = "activity at 90 minutes"
    IN  console[line][2]

IdealActivityComputed == Plotted /\ dpc # "ideal_activity"

\* x and y are the same value up to the rounding of the four operations that
\* differ between the two argument orders
WithinRounding(x, y) ==
    \/ x = y
    \/ /\ x.d # 0 /\ y.d # 0
       /\ NLe(NMul(NAbs(NSub(x, y)), Num(1, SignificantDigits - 1)),
              NMul(Num(5, 0), NAbs(x)))

AllWithinRounding(xs, ys) ==
    /\ Len(xs) = Len(ys)
    /\ \A i \in 1..Len(xs) : WithinRounding(xs[i], ys[i])

====
